---- MODULE Spec2Model ----
(***************************************************************************)
(* Flight Plan Assistant (src/Flight_Plan_Assistant.py).                   *)
(*                                                                         *)
(* The program is a blocking menu loop.  Every input() call is a point     *)
(* where the process waits for the user, so the model has one action per   *)
(* prompt: the action consumes the text typed at that prompt and runs the  *)
(* code up to the next prompt (or to the end of the report).               *)
(*                                                                         *)
(* Python floats are modelled as exact rationals num/den (den > 0) plus    *)
(* the three non-finite values float() also parses: inf, -inf and nan.     *)
(* Rounding of finite values is not modelled.                              *)
(***************************************************************************)
EXTENDS Integers, Sequences, FiniteSets, TLC

(* ---------------------------- bounds ----------------------------------- *)
\* distances typed by the user are the multiples of 10 in -10*MaxDist..10*MaxDist
MaxDist == 30
\* headwinds typed by the user are the multiples of 5 in -5*MaxWind..5*MaxWind
MaxWind == 38

(* ---------------------------- floats ----------------------------------- *)
Fin(n) == [k |-> "fin", num |-> n, den |-> 1]

RECURSIVE GCD(_, _)
GCD(a, b) == IF b = 0 THEN a ELSE GCD(b, a % b)

\* the rational n/d (d # 0) in lowest terms with a positive denominator
Rat(n, d) ==
    LET s == IF d < 0 THEN -1 ELSE 1
        g == GCD(IF n < 0 THEN -n ELSE n, s * d)
    IN [k |-> "fin", num |-> (s * n) \div g, den |-> (s * d) \div g]

PInf == [k |-> "pinf", num |-> 0, den |-> 1]
NInf == [k |-> "ninf", num |-> 0, den |-> 1]
NaN == [k |-> "nan", num |-> 0, den |-> 1]

IsFinite(v) == v.k = "fin"

\* -1, 0 or 1; nan has no sign and is never asked for one
Sign(v) ==
    CASE v.k = "pinf" -> 1
      [] v.k = "ninf" -> -1
      [] OTHER -> IF v.num > 0 THEN 1 ELSE IF v.num < 0 THEN -1 ELSE 0

FNeg(v) ==
    CASE v.k = "pinf" -> NInf
      [] v.k = "ninf" -> PInf
      [] v.k = "nan" -> NaN
      [] OTHER -> Rat(-v.num, v.den)

\* a + b
FAdd(a, b) ==
    CASE a.k = "nan" \/ b.k = "nan" -> NaN
      [] a.k = "fin" /\ b.k = "fin" -> Rat(a.num * b.den + b.num * a.den, a.den * b.den)
      [] a.k = "fin" -> b
      [] b.k = "fin" -> a
      [] OTHER -> IF a.k = b.k THEN a ELSE NaN

\* a - b
FSub(a, b) == FAdd(a, FNeg(b))

\* a * b
FMul(a, b) ==
    CASE a.k = "nan" \/ b.k = "nan" -> NaN
      [] a.k = "fin" /\ b.k = "fin" -> Rat(a.num * b.num, a.den * b.den)
      [] OTHER -> IF Sign(a) * Sign(b) = 0 THEN NaN
                  ELSE IF Sign(a) * Sign(b) > 0 THEN PInf ELSE NInf

\* a / b, for a divisor that is not a finite value <= 0 (the only callers' case)
FDiv(a, b) ==
    CASE a.k = "nan" \/ b.k = "nan" -> NaN
      [] a.k = "fin" /\ b.k = "fin" -> Rat(a.num * b.den, a.den * b.num)
      [] a.k = "fin" -> Fin(0)
      [] b.k = "fin" -> IF Sign(a) * Sign(b) > 0 THEN PInf ELSE NInf
      [] OTHER -> NaN

\* a <= b; every comparison with nan is false
FLe(a, b) ==
    CASE a.k = "nan" \/ b.k = "nan" -> FALSE
      [] a.k = "ninf" \/ b.k = "pinf" -> TRUE
      [] a.k = "pinf" \/ b.k = "ninf" -> FALSE
      [] OTHER -> a.num * b.den <= b.num * a.den

\* a < b
FLt(a, b) ==
    CASE a.k = "nan" \/ b.k = "nan" -> FALSE
      [] a.k = "pinf" \/ b.k = "ninf" -> FALSE
      [] a.k = "ninf" \/ b.k = "pinf" -> TRUE
      [] OTHER -> a.num * b.den < b.num * a.den

\* equality of values as numbers (nan equals nothing)
FEq(a, b) == FLe(a, b) /\ FLe(b, a)

\* int(v) of a finite v: truncation toward zero
Trunc(v) ==
    IF v.num >= 0 THEN v.num \div v.den ELSE -((-v.num) \div v.den)

(* ---------------------------- catalog ---------------------------------- *)
aircraft_db ==
    [c \in {"C172", "PA28", "SR22"} |->
        CASE c = "C172" -> [name |-> "Cessna 172", cruise_speed |-> Fin(120),
                            fuel_burn |-> Rat(85, 10), max_fuel |-> Fin(56), seats |-> 4]
          [] c = "PA28" -> [name |-> "Piper Cherokee", cruise_speed |-> Fin(130),
                            fuel_burn |-> Rat(90, 10), max_fuel |-> Fin(50), seats |-> 4]
          [] c = "SR22" -> [name |-> "Cirrus SR22", cruise_speed |-> Fin(185),
                            fuel_burn |-> Rat(150, 10), max_fuel |-> Fin(92), seats |-> 5]]

\* iteration order of aircraft_db.items(): insertion order of the dict literal
CatalogOrder == <<"C172", "PA28", "SR22">>

\* placeholder while no aircraft is selected
NoAircraft ==
    [name |-> "", cruise_speed |-> Fin(0), fuel_burn |-> Fin(0), max_fuel |-> Fin(0), seats |-> 0]

\* default arguments
DefaultReserve == Fin(1)
DefaultFuelPrice == Rat(650, 100)
DefaultHeadwind == Fin(0)

(* ---------------------------- strings ---------------------------------- *)
\* A string is the sequence of its whitespace-separated tokens.  A token is
\* a word, or the decimal rendering of an integer (w = "#", n the integer).
Word(w) == [w |-> w, n |-> 0]
Num(n) == [w |-> "#", n |-> n]

\* "Error: Headwind too strong!"
ErrorString == <<Word("Error:"), Word("Headwind"), Word("too"), Word("strong!")>>

\* f"{hours} hours {minutes} minutes"
FormatTime(hours, minutes) == <<Num(hours), Word("hours"), Num(minutes), Word("minutes")>>

\* a whole-word test for "Error", which the token "Error:" does not pass
ContainsErrorWord(s) == \E i \in DOMAIN s : s[i].w = "Error"

\* "Error" in s  (the only token with that substring is "Error:")
ContainsError(s) == \E i \in DOMAIN s : s[i].w = "Error:"

\* s.split()
Split(s) == s

\* float(token) of a digit token (the callers apply it to time_parts[0] of a
\* duration string only, which is always one)
TokenToFloat(t) == Fin(t.n)

\* plane name[:12]
Truncate12(name) == IF name = "Piper Cherokee" THEN "Piper Cherok" ELSE name

\* str.upper() on the aircraft codes the user types
Upper(s) ==
    CASE s = "c172" -> "C172"
      [] s = "pa28" -> "PA28"
      [] s = "sr22" -> "SR22"
      [] s = "Sr22" -> "SR22"
      [] s = "xyz" -> "XYZ"
      [] OTHER -> s

\* text typed at a numeric prompt: a decimal literal num/den, one of the
\* non-finite literals float() accepts, or something float() rejects
Decimal(n, d) == [kind |-> "decimal", num |-> n, den |-> d]
Literal(kd) == [kind |-> kd, num |-> 0, den |-> 1]

\* a parse that reads unparsable text as 0 instead of raising
ParseFloatLenient(t) ==
    CASE t.kind = "decimal" -> [ok |-> TRUE, val |-> Rat(t.num, t.den)]
      [] t.kind = "inf" -> [ok |-> TRUE, val |-> PInf]
      [] t.kind = "-inf" -> [ok |-> TRUE, val |-> NInf]
      [] t.kind = "nan" -> [ok |-> TRUE, val |-> NaN]
      [] OTHER -> [ok |-> TRUE, val |-> Fin(0)]

\* float(input(...)): ok = FALSE stands for the ValueError
ParseFloat(t) ==
    CASE t.kind = "decimal" -> [ok |-> TRUE, val |-> Rat(t.num, t.den)]
      [] t.kind = "inf" -> [ok |-> TRUE, val |-> PInf]
      [] t.kind = "-inf" -> [ok |-> TRUE, val |-> NInf]
      [] t.kind = "nan" -> [ok |-> TRUE, val |-> NaN]
      [] OTHER -> [ok |-> FALSE, val |-> Fin(0)]

NoValue == [ok |-> FALSE, val |-> Fin(0)]

(* ---------------------------- flight math ------------------------------ *)
\* raised = TRUE stands for the OverflowError / ValueError of int()
CalculateFlightTime(distance, speed, headwind) ==
    LET actual_speed == FSub(speed, headwind) IN
    IF FLe(actual_speed, Fin(0)) THEN [raised |-> FALSE, str |-> ErrorString]
    ELSE LET time_hours == FDiv(distance, actual_speed) IN
         IF ~IsFinite(time_hours) THEN [raised |-> TRUE, str |-> <<>>]
         ELSE LET hours == Trunc(time_hours)
                  minutes == Trunc(FMul(FSub(time_hours, Fin(hours)), Fin(60)))
              IN [raised |-> FALSE, str |-> FormatTime(hours, minutes)]

CalculateFuelNeeded(time_hours, fuel_burn, reserve) ==
    FMul(FAdd(time_hours, reserve), fuel_burn)

CheckFuelSufficiency(aircraft, fuel_needed) ==
    IF FLe(fuel_needed, aircraft.max_fuel) THEN "Fuel OK" ELSE "Fuel warning"

CalculateCost(fuel_needed, fuel_price) == FMul(fuel_needed, fuel_price)

(* ---------------------------- report bodies ---------------------------- *)
\* a lookup that falls back to the first catalog entry for an unknown code
SelectAircraftDefault(choice) ==
    IF choice \notin DOMAIN aircraft_db
    THEN [found |-> TRUE, aircraft |-> aircraft_db["C172"]]
    ELSE [found |-> TRUE, aircraft |-> aircraft_db[choice]]

\* aircraft lookup of display_flight_plan
SelectAircraft(choice) ==
    IF choice \notin DOMAIN aircraft_db
    THEN [found |-> FALSE, aircraft |-> NoAircraft]
    ELSE [found |-> TRUE, aircraft |-> aircraft_db[choice]]

\* wind remark of the summary
WindRemark(headwind) ==
    IF FLt(Fin(20), headwind) THEN "Strong headwind - consider delaying if possible"
    ELSE IF FLt(headwind, Fin(-10)) THEN "Favorable tailwind - good flying conditions!"
    ELSE "Normal wind conditions"

\* one record of a call of calculate_flight_time
FtCall(distance, speed, headwind) ==
    [distance |-> distance, speed |-> speed, headwind |-> headwind,
     result |-> CalculateFlightTime(distance, speed, headwind)]

\* "Calculations" section of display_flight_plan
PlanCalculations(aircraft, distance, headwind, price) ==
    LET ft == CalculateFlightTime(distance, aircraft.cruise_speed, headwind) IN
    IF ft.raised
    THEN [crashed |-> TRUE, flight_time |-> <<>>, fuel_needed |-> Fin(0),
          fuel_check |-> "", cost |-> Fin(0), calls |-> <<"calculate_flight_time">>]
    ELSE IF ~ContainsError(ft.str)
    THEN LET time_parts == Split(ft.str)
             hours == TokenToFloat(time_parts[1])
             fuel == CalculateFuelNeeded(hours, aircraft.fuel_burn, DefaultReserve)
         IN [crashed |-> FALSE, flight_time |-> ft.str, fuel_needed |-> fuel,
             fuel_check |-> CheckFuelSufficiency(aircraft, fuel),
             cost |-> CalculateCost(fuel, price),
             calls |-> <<"calculate_flight_time", "calculate_fuel_needed",
                         "check_fuel_sufficiency", "calculate_cost">>]
    ELSE [crashed |-> FALSE, flight_time |-> ft.str, fuel_needed |-> Fin(0),
          fuel_check |-> "N/A", cost |-> Fin(0), calls |-> <<"calculate_flight_time">>]

\* the for loop of aircraft_comparison from catalog position i on
RECURSIVE CompareFrom(_, _, _)
CompareFrom(i, distance, acc) ==
    IF i > Len(CatalogOrder) THEN acc
    ELSE LET aircraft == aircraft_db[CatalogOrder[i]]
             call == FtCall(distance, aircraft.cruise_speed, DefaultHeadwind)
             time == call.result
             seen == [acc EXCEPT !.ft_calls = Append(@, call)]
         IN IF time.raised THEN [seen EXCEPT !.crashed = TRUE]
            ELSE IF ~ContainsError(time.str)
            THEN LET time_parts == Split(time.str)
                     hours == TokenToFloat(time_parts[1])
                     fuel == CalculateFuelNeeded(hours, aircraft.fuel_burn, DefaultReserve)
                     cost == CalculateCost(fuel, DefaultFuelPrice)
                     row == [code |-> CatalogOrder[i], name |-> Truncate12(aircraft.name),
                             col1 |-> time_parts[1], col2 |-> time_parts[2],
                             fuel |-> fuel, cost |-> cost]
                 IN CompareFrom(i + 1, distance, [seen EXCEPT !.rows = Append(@, row)])
            ELSE CompareFrom(i + 1, distance, [seen EXCEPT !.skipped = Append(@, CatalogOrder[i])])

CompareLoop(distance) ==
    CompareFrom(1, distance, [crashed |-> FALSE, rows |-> <<>>, skipped |-> <<>>, ft_calls |-> <<>>])

(* ---------------------------- user input ------------------------------- *)
MenuTexts == {"1", "2", "3", "4", "5", "", "exit"}
CodeTexts == {"C172", "c172", "pa28", "Sr22", "XYZ", "xyz", ""}
SpecialTexts == {Literal("inf"), Literal("-inf"), Literal("nan"), Literal("junk")}
DistanceTexts == {Decimal(10 * k, 1) : k \in -MaxDist..MaxDist} \cup SpecialTexts
HeadwindTexts == {Decimal(5 * k, 1) : k \in -MaxWind..MaxWind} \cup SpecialTexts
PriceTexts == {Decimal(650, 100), Decimal(0, 1), Decimal(725, 100)} \cup SpecialTexts

(* ---------------------------- state ------------------------------------ *)
VARIABLES
    pc,           \* where the process is: the prompt it waits at, or ended
    menu_choice,  \* last text read at the menu prompt
    exit_code,    \* -1 while running
    op,           \* operation of the current / last menu choice
    code_text,    \* text typed at the aircraft-code prompt
    choice,       \* local `choice` of display_flight_plan
    aircraft,     \* local `aircraft`
    typed,        \* texts typed at the numeric prompts of this operation
    distance,     \* local `distance`  (NoValue until parsed)
    headwind,     \* local `headwind`
    fuel_price,   \* local `fuel_price`
    prompts,      \* prompts issued by this operation, in order
    output,       \* messages printed by this operation, in order
    calls,        \* flight-math functions called by display_flight_plan, in order
    ft_calls,     \* calls of calculate_flight_time of this operation
    flight_time,  \* local `flight_time` (<<>> until computed)
    fuel_needed,
    fuel_check,
    cost,
    summary,      \* TRUE once FLIGHT PLAN SUMMARY is printed
    rows,         \* table rows printed by aircraft_comparison
    skipped       \* catalog entries the comparison loop skipped

vars == <<pc, menu_choice, exit_code, op, code_text, choice, aircraft, typed, distance,
          headwind, fuel_price, prompts, output, calls, ft_calls, flight_time,
          fuel_needed, fuel_check, cost, summary, rows, skipped>>

\* locals of a report that has just been entered
FreshLocals ==
    /\ code_text' = ""
    /\ choice' = ""
    /\ aircraft' = NoAircraft
    /\ typed' = <<>>
    /\ distance' = NoValue
    /\ headwind' = NoValue
    /\ fuel_price' = NoValue
    /\ calls' = <<>>
    /\ ft_calls' = <<>>
    /\ flight_time' = <<>>
    /\ fuel_needed' = Fin(0)
    /\ fuel_check' = ""
    /\ cost' = Fin(0)
    /\ summary' = FALSE
    /\ rows' = <<>>
    /\ skipped' = <<>>

Init ==
    /\ pc = "menu"
    /\ menu_choice = ""
    /\ exit_code = -1
    /\ op = "none"
    /\ code_text = ""
    /\ choice = ""
    /\ aircraft = NoAircraft
    /\ typed = <<>>
    /\ distance = NoValue
    /\ headwind = NoValue
    /\ fuel_price = NoValue
    /\ prompts = <<>>
    /\ output = <<>>
    /\ calls = <<>>
    /\ ft_calls = <<>>
    /\ flight_time = <<>>
    /\ fuel_needed = Fin(0)
    /\ fuel_check = ""
    /\ cost = Fin(0)
    /\ summary = FALSE
    /\ rows = <<>>
    /\ skipped = <<>>

(* ---------------------------- main_menu -------------------------------- *)
\* choice == "1": display_flight_plan() runs up to its first input()
ChooseFlightPlan(c) ==
    /\ pc = "menu"
    /\ c = "1"
    /\ menu_choice' = c
    /\ op' = "plan"
    /\ FreshLocals
    /\ output' = <<"=== Flight Plan Assistant ===", "Available Aircraft:">>
    /\ prompts' = <<"Enter aircraft code: ">>
    /\ pc' = "fp_code"
    /\ UNCHANGED exit_code

\* choice == "2": aircraft_comparison() runs up to its input()
ChooseComparison(c) ==
    /\ pc = "menu"
    /\ c = "2"
    /\ menu_choice' = c
    /\ op' = "compare"
    /\ FreshLocals
    /\ output' = <<"=== Aircraft Comparison ===">>
    /\ prompts' = <<"Enter trip distance (nautical miles): ">>
    /\ pc' = "cmp_distance"
    /\ UNCHANGED exit_code

\* choice == "3": the catalog listing
ChooseInfo(c) ==
    /\ pc = "menu"
    /\ c = "3"
    /\ menu_choice' = c
    /\ op' = "info"
    /\ FreshLocals
    /\ output' = <<"Aircraft Information:">> \o
                 [i \in 1..Len(CatalogOrder) |-> aircraft_db[CatalogOrder[i]].name]
    /\ prompts' = <<>>
    /\ pc' = "menu"
    /\ UNCHANGED exit_code

\* choice == "4": break; the module ends and the process exits with code 0
ChooseExit(c) ==
    /\ pc = "menu"
    /\ c = "4"
    /\ menu_choice' = c
    /\ op' = "exit"
    /\ FreshLocals
    /\ output' = <<"Safe travels!">>
    /\ prompts' = <<>>
    /\ pc' = "exited"
    /\ exit_code' = 0

\* else branch
ChooseOther(c) ==
    /\ pc = "menu"
    /\ c \notin {"1", "2", "3", "4"}
    /\ menu_choice' = c
    /\ op' = "retry"
    /\ FreshLocals
    /\ output' = <<"Please choose 1-4">>
    /\ prompts' = <<>>
    /\ pc' = "menu"
    /\ UNCHANGED exit_code

(* ---------------------------- display_flight_plan ---------------------- *)
\* the aircraft code is read
EnterAircraftCode(t) ==
    /\ pc = "fp_code"
    /\ code_text' = t
    /\ choice' = Upper(t)
    /\ LET sel == SelectAircraft(Upper(t)) IN
       IF ~sel.found
       THEN /\ output' = Append(output, "Sorry, aircraft not found!")
            /\ pc' = "menu"
            /\ UNCHANGED <<aircraft, prompts>>
       ELSE /\ aircraft' = sel.aircraft
            /\ output' = Append(output, "Selected")
            /\ prompts' = Append(prompts, "Enter distance (nautical miles): ")
            /\ pc' = "fp_distance"
    /\ UNCHANGED <<menu_choice, exit_code, op, typed, distance, headwind, fuel_price, calls,
                   ft_calls, flight_time, fuel_needed, fuel_check, cost, summary, rows, skipped>>

\* the distance is read inside the try block
EnterDistance(t) ==
    /\ pc = "fp_distance"
    /\ typed' = Append(typed, t)
    /\ LET p == ParseFloat(t) IN
       IF ~p.ok
       THEN /\ output' = Append(output, "Please enter valid numbers!")
            /\ pc' = "menu"
            /\ UNCHANGED <<distance, prompts>>
       ELSE /\ distance' = p
            /\ prompts' = Append(prompts, "Enter headwind (knots, 0 if none): ")
            /\ pc' = "fp_headwind"
            /\ UNCHANGED output
    /\ UNCHANGED <<menu_choice, exit_code, op, code_text, choice, aircraft, headwind,
                   fuel_price, calls, ft_calls, flight_time, fuel_needed, fuel_check, cost,
                   summary, rows, skipped>>

\* the headwind is read inside the try block
EnterHeadwind(t) ==
    /\ pc = "fp_headwind"
    /\ typed' = Append(typed, t)
    /\ LET p == ParseFloat(t) IN
       IF ~p.ok
       THEN /\ output' = Append(output, "Please enter valid numbers!")
            /\ pc' = "menu"
            /\ UNCHANGED <<headwind, prompts>>
       ELSE /\ headwind' = p
            /\ prompts' = Append(prompts, "Enter fuel price per gallon: ")
            /\ pc' = "fp_price"
            /\ UNCHANGED output
    /\ UNCHANGED <<menu_choice, exit_code, op, code_text, choice, aircraft, distance,
                   fuel_price, calls, ft_calls, flight_time, fuel_needed, fuel_check, cost,
                   summary, rows, skipped>>

\* the fuel price is read; on success the calculations and the display follow
EnterFuelPrice(t) ==
    /\ pc = "fp_price"
    /\ typed' = Append(typed, t)
    /\ LET p == ParseFloat(t) IN
       IF ~p.ok
       THEN /\ output' = Append(output, "Please enter valid numbers!")
            /\ pc' = "menu"
            /\ UNCHANGED <<fuel_price, calls, ft_calls, flight_time, fuel_needed, fuel_check,
                           cost, summary, exit_code>>
       ELSE LET r == PlanCalculations(aircraft, distance.val, headwind.val, p.val) IN
            /\ fuel_price' = p
            /\ calls' = r.calls
            /\ ft_calls' = <<FtCall(distance.val, aircraft.cruise_speed, headwind.val)>>
            /\ flight_time' = r.flight_time
            /\ fuel_needed' = r.fuel_needed
            /\ fuel_check' = r.fuel_check
            /\ cost' = r.cost
            /\ IF r.crashed
               THEN /\ pc' = "crashed"
                    /\ exit_code' = 1
                    /\ UNCHANGED <<summary, output>>
               ELSE /\ summary' = TRUE
                    /\ output' = output \o <<"FLIGHT PLAN SUMMARY", WindRemark(headwind.val)>>
                    /\ pc' = "menu"
                    /\ UNCHANGED exit_code
    /\ UNCHANGED <<menu_choice, op, code_text, choice, aircraft, distance, headwind, prompts,
                   rows, skipped>>

(* ---------------------------- aircraft_comparison ---------------------- *)
\* the trip distance is read; on success the whole table follows
EnterTripDistance(t) ==
    /\ pc = "cmp_distance"
    /\ typed' = Append(typed, t)
    /\ LET p == ParseFloat(t) IN
       IF ~p.ok
       THEN /\ output' = Append(output, "Please enter a valid number!")
            /\ pc' = "menu"
            /\ UNCHANGED <<distance, ft_calls, rows, skipped, exit_code>>
       ELSE LET r == CompareLoop(p.val) IN
            /\ distance' = p
            /\ output' = Append(output, "Comparing aircraft")
            /\ ft_calls' = r.ft_calls
            /\ rows' = r.rows
            /\ skipped' = r.skipped
            /\ IF r.crashed
               THEN pc' = "crashed" /\ exit_code' = 1
               ELSE pc' = "menu" /\ UNCHANGED exit_code
    /\ UNCHANGED <<menu_choice, op, code_text, choice, aircraft, headwind, fuel_price, prompts,
                   calls, flight_time, fuel_needed, fuel_check, cost, summary>>

Next ==
    \/ \E c \in MenuTexts : ChooseFlightPlan(c)
    \/ \E c \in MenuTexts : ChooseComparison(c)
    \/ \E c \in MenuTexts : ChooseInfo(c)
    \/ \E c \in MenuTexts : ChooseExit(c)
    \/ \E c \in MenuTexts : ChooseOther(c)
    \/ \E t \in CodeTexts : EnterAircraftCode(t)
    \/ \E t \in DistanceTexts : EnterDistance(t)
    \/ \E t \in HeadwindTexts : EnterHeadwind(t)
    \/ \E t \in PriceTexts : EnterFuelPrice(t)
    \/ \E t \in DistanceTexts : EnterTripDistance(t)

Spec == Init /\ [][Next]_vars

TypeOK ==
    /\ pc \in {"menu", "fp_code", "fp_distance", "fp_headwind", "fp_price", "cmp_distance",
               "exited", "crashed"}
    /\ exit_code \in {-1, 0, 1}

(* ---------------------------- properties ------------------------------- *)
Last(q) == q[Len(q)]

\* the flight plan report got past its three numeric prompts
PlanInputsParsed == op = "plan" /\ fuel_price.ok

\* the duration of a successful flight-time string
HoursOf(str) == str[1].n
MinutesOf(str) == str[3].n

\* C1: in the flight plan report, whenever the flight-time computation
\* succeeds, fuel required = (distance / (cruise speed - headwind) + 1.0) x
\* fuel burn, with the full (fractional) duration.
C1_FuelFromFullDuration ==
    (PlanInputsParsed /\ summary /\ ~ContainsError(flight_time)) =>
        LET duration == FDiv(distance.val, FSub(aircraft.cruise_speed, headwind.val))
        IN FEq(fuel_needed, FMul(FAdd(duration, Fin(1)), aircraft.fuel_burn))

\* C2: calculate_flight_time returns the failure result iff headwind >=
\* cruise speed, and in every other case it returns a duration.
C2_FailureIffHeadwindAtLeastSpeed ==
    \A i \in DOMAIN ft_calls :
        LET call == ft_calls[i] IN
        IF FLe(call.speed, call.headwind)
        THEN ~call.result.raised /\ call.result.str = ErrorString
        ELSE ~call.result.raised /\ call.result.str # ErrorString
             /\ Len(call.result.str) = 4 /\ call.result.str[1].w = "#"

\* C3: for distance >= 0 and cruise speed - headwind > 0 the result is a
\* duration with hours >= 0, 0 <= minutes < 60 and hours*60 + minutes the
\* whole minutes of (distance / effective speed) * 60; distance 0 gives 0h 0m.
C3_DurationIsWholeMinutes ==
    \A i \in DOMAIN ft_calls :
        LET call == ft_calls[i]
            eff == FSub(call.speed, call.headwind)
        IN (FLe(Fin(0), call.distance) /\ FLt(Fin(0), eff)) =>
              /\ ~call.result.raised
              /\ call.result.str # ErrorString
              /\ HoursOf(call.result.str) >= 0
              /\ MinutesOf(call.result.str) >= 0
              /\ MinutesOf(call.result.str) < 60
              /\ HoursOf(call.result.str) * 60 + MinutesOf(call.result.str)
                   = Trunc(FMul(FDiv(call.distance, eff), Fin(60)))
              /\ (FEq(call.distance, Fin(0)) =>
                    HoursOf(call.result.str) = 0 /\ MinutesOf(call.result.str) = 0)

\* C4: every flight-time result produced by either report is the failure
\* indicator or a duration with hours >= 0 and 0 <= minutes < 60.
C4_ResultsAreNonNegativeDurations ==
    \A i \in DOMAIN ft_calls :
        LET r == ft_calls[i].result IN
        ~r.raised =>
            \/ r.str = ErrorString
            \/ HoursOf(r.str) >= 0 /\ MinutesOf(r.str) >= 0 /\ MinutesOf(r.str) < 60

\* C5: in the flight plan report, with the aircraft found and all inputs
\* parsed but headwind >= cruise speed, the report reaches the display, shows
\* the failure text as flight time, fuel 0, fuel check "N/A", cost 0, and
\* calls none of the fuel, sufficiency and cost computations.
C5_TooStrongHeadwindDegrades ==
    (PlanInputsParsed /\ FLe(aircraft.cruise_speed, headwind.val)) =>
        /\ pc = "menu"
        /\ summary
        /\ Last(output) = WindRemark(headwind.val)
        /\ flight_time = <<Word("Error:"), Word("Headwind"), Word("too"), Word("strong!")>>
        /\ fuel_needed = Fin(0)
        /\ fuel_check = "N/A"
        /\ cost = Fin(0)
        /\ calls = <<"calculate_flight_time">>

C5_Witness ==
    /\ PlanInputsParsed
    /\ aircraft.name = "Cessna 172"
    /\ distance.val = Fin(300)
    /\ headwind.val = Fin(130)
    /\ summary
    /\ fuel_check = "N/A"

\* spellings of the catalog keys, upper, lower or mixed case
CatalogSpellings == {"C172", "c172", "PA28", "pa28", "SR22", "sr22", "Sr22"}

\* C6: in the flight plan report, an aircraft code that is not a catalog key
\* (compared case-insensitively) prints the not-found message and returns to
\* the menu: no distance, headwind or price prompt, no computation, no summary.
C6_UnknownAircraftAborts ==
    (op = "plan" /\ pc # "fp_code" /\ code_text \notin CatalogSpellings) =>
        /\ pc = "menu"
        /\ Last(output) = "Sorry, aircraft not found!"
        /\ prompts = <<"Enter aircraft code: ">>
        /\ typed = <<>>
        /\ calls = <<>>
        /\ ft_calls = <<>>
        /\ ~summary

C6_Witness ==
    /\ op = "plan"
    /\ code_text = "xyz"
    /\ pc = "menu"
    /\ Last(output) = "Sorry, aircraft not found!"

\* C7: in the flight plan report, if one of distance, headwind, fuel price
\* fails to parse, the validation message is printed and the report returns
\* to the menu: nothing is computed, no summary is displayed and no prompt
\* after the failing one is issued.
C7_ParseFailureAborts ==
    (op = "plan" /\ \E i \in DOMAIN typed : typed[i].kind = "junk") =>
        /\ pc = "menu"
        /\ Last(output) = "Please enter valid numbers!"
        /\ Last(typed).kind = "junk"
        /\ Len(prompts) = 1 + Len(typed)
        /\ calls = <<>>
        /\ ft_calls = <<>>
        /\ flight_time = <<>>
        /\ ~summary

C7_Witness ==
    /\ op = "plan"
    /\ Len(typed) = 2
    /\ typed[1].kind = "decimal"
    /\ typed[2].kind = "junk"
    /\ pc = "menu"
    /\ Len(prompts) = 3

\* C8: the menu loop ends if and only if "4" was read at the menu prompt;
\* after 1, 2, 3 or anything else the menu is shown again.
C8_LoopEndsOnlyOnFour ==
    (pc \in {"exited", "crashed"}) <=> (menu_choice = "4")

\* C9: no input ends the process through an uncaught error; the process ends
\* only through menu option 4, with exit code 0.
C9_NoUncaughtError ==
    /\ pc # "crashed"
    /\ exit_code \in {-1, 0}
    /\ (exit_code = 0 => menu_choice = "4")

\* C10: in the comparison report, for every numeric distance, no entry is
\* skipped and exactly one row per catalog entry is printed, in catalog
\* order, each from zero headwind, reserve 1.0 and fuel price 6.50.
C10_OneRowPerAircraft ==
    (op = "compare" /\ distance.ok) =>
        /\ skipped = <<>>
        /\ Len(rows) = Len(CatalogOrder)
        /\ Len(ft_calls) = Len(CatalogOrder)
        /\ \A i \in DOMAIN rows :
             /\ rows[i].code = CatalogOrder[i]
             /\ ft_calls[i].headwind = Fin(0)
             /\ ft_calls[i].speed = aircraft_db[CatalogOrder[i]].cruise_speed
             /\ FEq(rows[i].fuel,
                    FMul(FAdd(Fin(rows[i].col1.n), Fin(1)), aircraft_db[CatalogOrder[i]].fuel_burn))
             /\ FEq(rows[i].cost, FMul(rows[i].fuel, Rat(650, 100)))

====
